---- MODULE Spec2Model ----
(***************************************************************************)
(* A model of ec2-deploy's deployment pipeline (src/src/main.rs): the one  *)
(* async `main` that connects to the first configured host, runs the local *)
(* build, packages the artifacts into a zip archive, uploads and extracts  *)
(* it remotely, activates the app and closes the session, together with    *)
(* the helper `unwrap_command_stderr`.                                      *)
(*                                                                         *)
(* Paths are sequences of components ("bin/server" is <<"bin","server">>), *)
(* byte strings are sequences of numbers 0..255, and `main`'s position is  *)
(* the variable pc. Everything outside the program (the local and remote   *)
(* filesystems, the processes it spawns, the network) answers              *)
(* nondeterministically.                                                   *)
(***************************************************************************)
EXTENDS Integers, Sequences, FiniteSets, TLC

\* The longest artifacts list of a deploy.json the model draws.
MaxArtifacts == 2

----------------------------------------------------------------------------
(* Paths *)

\* format!("{}/{}", dir, rel)
Join(dir, rel) == dir \o rel

\* Path::file_name(): the last component (callers unwrap it).
FileName(p) == p[Len(p)]

HasFileName(p) == Len(p) > 0

Parent(p) == SubSeq(p, 1, Len(p) - 1)

----------------------------------------------------------------------------
(* Bytes and text *)

RECURSIVE Utf8Chars(_)
\* The code points of a byte string made of 1-byte (0xxxxxxx) and 2-byte
\* (110xxxxx 10xxxxxx) sequences; <<-1>> marks the first undecodable byte.
Utf8Chars(b) ==
    IF b = <<>> THEN <<>>
    ELSE IF b[1] < 128 THEN <<b[1]>> \o Utf8Chars(Tail(b))
    ELSE IF /\ b[1] >= 194 /\ b[1] < 224 /\ Len(b) >= 2
            /\ b[2] >= 128 /\ b[2] < 192
         THEN <<(b[1] - 192) * 64 + (b[2] - 128)>> \o Utf8Chars(Tail(Tail(b)))
    ELSE <<-1>>

\* String::from_utf8(bytes): Ok(text) or Err.
FromUtf8(b) ==
    LET c == Utf8Chars(b)
    IN  IF \E i \in 1..Len(c) : c[i] = -1
        THEN [ok |-> FALSE, text |-> <<>>]
        ELSE [ok |-> TRUE, text |-> c]

\* What a process may write to its error stream: nothing, "er", "e-acute" in
\* UTF-8, and a byte that is not UTF-8.
StderrChoices == {<<>>, <<101, 114>>, <<195, 169>>, <<255>>}

\* What a remote process may write to its output stream.
StdoutChoices == {<<111>>, <<255>>}

----------------------------------------------------------------------------
(* The local filesystem the tool runs in *)

LocalFiles ==
    (<<"bin", "server">> :> "srv") @@ (<<"run.sh">> :> "run") @@
    (<<"conf", "app.yml">> :> "yml") @@ (<<"conf", "db.yml">> :> "db") @@
    (<<"assets", "logo">> :> "png")

LocalDirs == {<<"bin">>, <<"conf">>, <<"assets">>, <<"assets", "img">>, <<"dist">>}

\* Path::is_file / Path::is_dir
IsFile(p) == p \in DOMAIN LocalFiles
IsDir(p) == p \in LocalDirs

\* Path::read_dir(): the direct children of a directory.
Children(d) ==
    {p \in (DOMAIN LocalFiles) \cup LocalDirs :
        Len(p) = Len(d) + 1 /\ SubSeq(p, 1, Len(d)) = d}

\* read_dir yields the children in an order the platform chooses.
Orders(S) ==
    {o \in [1..Cardinality(S) -> S] : \A i, j \in 1..Cardinality(S) : o[i] = o[j] => i = j}

----------------------------------------------------------------------------
(* deploy.json: the App descriptor *)

ArtifactPaths ==
    {<<"bin", "server">>, <<"run.sh">>, <<"conf">>, <<"assets">>, <<"gone">>}

RECURSIVE SeqsUpTo(_, _)
SeqsUpTo(S, n) ==
    IF n = 0 THEN {<<>>}
    ELSE LET shorter == SeqsUpTo(S, n - 1)
         IN  shorter \cup {Append(s, x) : s \in {t \in shorter : Len(t) = n - 1}, x \in S}

\* Option<String>: <<>> is None, <<p>> is Some(p).
EntrypointChoices == {<<>>, <<<<"bin", "server">>>>, <<<<"run.sh">>>>}

\* build_command after split_whitespace().
BuildCommandChoices == {<<"make", "release">>, <<>>}

BuildOutputChoices == {<<"dist", "out.zip">>}

App ==
    [name : {"svc"},
     host_path : {<<"opt", "svc">>},
     build_output_file : BuildOutputChoices,
     build_command : BuildCommandChoices,
     artifacts : SeqsUpTo(ArtifactPaths, MaxArtifacts),
     entrypoint : EntrypointChoices]

NoApp ==
    [name |-> "", host_path |-> <<>>, build_output_file |-> <<>>,
     build_command |-> <<>>, artifacts |-> <<>>, entrypoint |-> <<>>]

----------------------------------------------------------------------------
(* Remote file contents and the archive *)

Data(d) == [kind |-> "data", entries |-> <<>>, data |-> d]
Zip(entries) == [kind |-> "zip", entries |-> entries, data |-> ""]
Partial == [kind |-> "partial", entries |-> <<>>, data |-> ""]

\* The build output file before File::create has run.
NoBuildFile == [exists |-> FALSE, entries |-> <<>>, finalized |-> FALSE]

\* The remote host before the run: a fresh host, or one holding an earlier
\* deployment.
RemoteInits ==
    {[dirs |-> {}, files |-> <<>>, exec |-> {}],
     [dirs |-> {<<"opt">>, <<"opt", "svc">>},
      files |-> (<<"opt", "svc", "server">> :> Data("old")),
      exec |-> {}]}

WithDirsMutNested(dirs, p) ==
    IF p \in dirs THEN dirs \cup {Join(p, <<p[Len(p)]>>)}
    ELSE dirs \cup {SubSeq(p, 1, k) : k \in 1..Len(p)}

\* `mkdir -p p`: p and every missing parent.
WithDirs(dirs, p) == dirs \cup {SubSeq(p, 1, k) : k \in 1..Len(p)}

ParentExists(dirs, p) == Parent(p) = <<>> \/ Parent(p) \in dirs

\* Writing a whole file at a path, creating or replacing it.
Put(files, p, c) == [q \in (DOMAIN files) \cup {p} |-> IF q = p THEN c ELSE files[q]]

RECURSIVE ExtractMutNoOverwrite(_, _, _)
ExtractMutNoOverwrite(files, entries, dir) ==
    IF entries = <<>> THEN files
    ELSE ExtractMutNoOverwrite(
           IF Join(dir, <<entries[1].name>>) \in DOMAIN files THEN files
           ELSE Put(files, Join(dir, <<entries[1].name>>), Data(entries[1].data)),
           Tail(entries), dir)

RECURSIVE Extract(_, _, _)
\* `unzip -o archive -d dir`: every entry in turn, replacing what is there.
Extract(files, entries, dir) ==
    IF entries = <<>> THEN files
    ELSE Extract(Put(files, Join(dir, <<entries[1].name>>), Data(entries[1].data)),
                 Tail(entries), dir)

----------------------------------------------------------------------------
(* Process outcomes *)

\* std::process::Output of a command that could be launched and awaited, or
\* the Err of one that could not.
NotLaunched == [launched |-> FALSE, status |-> 0, stdout |-> <<>>, stderr |-> <<>>]

CmdOutcomes ==
    {NotLaunched} \cup
    [launched : {TRUE}, status : {0, 1}, stdout : StdoutChoices, stderr : StderrChoices]

\* A command that exits with status 0 has done its work; one that could not
\* be launched has done nothing; any other may have done it or not.
EffectChoices(out) ==
    IF ~out.launched THEN {FALSE} ELSE IF out.status = 0 THEN {TRUE} ELSE BOOLEAN

UnwrapMutConfuse(out) ==
    IF ~out.launched \/ Len(out.stderr) > 0
    THEN [tag |-> "Err", kind |-> "RemoteCommandError", text |-> FromUtf8(out.stderr).text]
    ELSE [tag |-> "Ok", kind |-> "", text |-> FromUtf8(out.stdout).text]

UnwrapMutNeverErr(out) ==
    IF ~out.launched THEN [tag |-> "Panic", kind |-> "TransportError", text |-> <<>>]
    ELSE [tag |-> "Ok", kind |-> "", text |-> FromUtf8(out.stdout).text]

UnwrapMutStatus(out) ==
    IF ~out.launched THEN [tag |-> "Panic", kind |-> "TransportError", text |-> <<>>]
    ELSE IF out.status # 0
         THEN [tag |-> "Err", kind |-> "RemoteCommandError", text |-> FromUtf8(out.stderr).text]
    ELSE [tag |-> "Ok", kind |-> "", text |-> <<>>]

\* unwrap_command_stderr: Err(stderr text) when the error stream is not
\* empty, Ok(stdout text) otherwise; it panics when the command could not be
\* run and when the stream it decodes is not UTF-8.
UnwrapCommandStderr(out) ==
    IF ~out.launched THEN [tag |-> "Panic", kind |-> "TransportError", text |-> <<>>]
    ELSE IF Len(out.stderr) > 0
         THEN IF FromUtf8(out.stderr).ok
              THEN [tag |-> "Err", kind |-> "RemoteCommandError",
                    text |-> FromUtf8(out.stderr).text]
              ELSE [tag |-> "Panic", kind |-> "Utf8Error", text |-> <<>>]
    ELSE IF FromUtf8(out.stdout).ok
         THEN [tag |-> "Ok", kind |-> "", text |-> FromUtf8(out.stdout).text]
    ELSE [tag |-> "Panic", kind |-> "Utf8Error", text |-> <<>>]

BuildVerdictMutIgnore(out) ==
    IF ~out.launched THEN [tag |-> "Panic", kind |-> "BuildError", text |-> <<>>]
    ELSE [tag |-> "Ok", kind |-> "", text |-> <<>>]

\* The match on the build command's output: a launch error and a non-empty
\* error stream are fatal, the exit status is not looked at.
BuildVerdict(out) ==
    IF ~out.launched THEN [tag |-> "Panic", kind |-> "BuildError", text |-> <<>>]
    ELSE IF Len(out.stderr) > 0
         THEN IF FromUtf8(out.stderr).ok
              THEN [tag |-> "Panic", kind |-> "BuildError", text |-> FromUtf8(out.stderr).text]
              ELSE [tag |-> "Panic", kind |-> "Utf8Error", text |-> <<>>]
    ELSE [tag |-> "Ok", kind |-> "", text |-> <<>>]

\* The outcomes of a command whose streams and status are never looked at: it
\* could not be run, it succeeded quietly, it failed with a message.
PlainOutcomes ==
    {NotLaunched,
     [launched |-> TRUE, status |-> 0, stdout |-> <<111>>, stderr |-> <<>>],
     [launched |-> TRUE, status |-> 1, stdout |-> <<111>>, stderr |-> <<101, 114>>]}

BuildOutcomes ==
    {NotLaunched} \cup
    [launched : {TRUE}, status : {0, 1}, stdout : {<<>>}, stderr : StderrChoices]

----------------------------------------------------------------------------
(* State *)

VARIABLES
    pc,            \* main's position
    app,           \* the parsed deploy.json
    artIdx,        \* the artifacts loop's position
    buildFile,     \* the local build output file (the archive)
    sessionState,  \* the ssh session
    sftpState,     \* the sftp subsystem and client
    remoteDirs,    \* the remote host's directories
    remoteFiles,   \* the remote host's files, path -> content
    remoteExec,    \* the remote files with execute permission
    stack,         \* the remote container stack
    inflight,      \* the network operations started and not yet completed
    closeRes,      \* the results of the two closes
    trace,         \* the operations main has performed, in order (first run)
    printed,       \* the lines written to standard output
    panic,         \* the panic that ended the run, if any
    lastOkRemote,  \* the remote host as the last step main took for successful left it
    prior          \* the earlier run of the program against this host, if any

vars ==
    <<pc, app, artIdx, buildFile, sessionState, sftpState, remoteDirs, remoteFiles,
      remoteExec, stack, inflight, closeRes, trace, printed, panic, lastOkRemote,
      prior>>

localVars == <<artIdx, buildFile>>
connVars == <<sessionState, sftpState, inflight, closeRes>>
remoteVars == <<remoteDirs, remoteFiles, remoteExec, stack, lastOkRemote>>

NoPanic == [step |-> "", kind |-> "", text |-> <<>>, path |-> <<>>]

Ev(op, arg, out) ==
    [op |-> op, arg |-> arg, ok |-> out.launched, status |-> out.status,
     stdout |-> out.stdout, stderr |-> out.stderr]

\* An operation that returns a Result and has no output streams.
IoEv(op, arg, ok) ==
    [op |-> op, arg |-> arg, ok |-> ok, status |-> 0, stdout |-> <<>>, stderr |-> <<>>]

\* The trace is kept for the first run against the host.
Record(es) == IF prior = <<>> THEN trace \o es ELSE trace
Log(e) == trace' = Record(<<e>>)
Say(lines) == printed' = printed \o lines
Go(next) == pc' = next /\ panic' = panic
Fail(step, kind, text, path) ==
    /\ pc' = "panicked"
    /\ panic' = [step |-> step, kind |-> kind, text |-> text, path |-> path]

Remote == [dirs |-> remoteDirs, files |-> remoteFiles, exec |-> remoteExec]

Init ==
    /\ pc = "load_hosts"
    /\ app = NoApp
    /\ artIdx = 1
    /\ buildFile = NoBuildFile
    /\ sessionState = "Unconnected"
    /\ sftpState = "none"
    /\ \E r \in RemoteInits :
         /\ remoteDirs = r.dirs
         /\ remoteFiles = r.files
         /\ remoteExec = r.exec
         /\ lastOkRemote = r
    /\ stack = "none"
    /\ inflight = {}
    /\ closeRes = [session |-> "none", sftp |-> "none"]
    /\ trace = <<>>
    /\ printed = <<>>
    /\ panic = NoPanic
    /\ prior = <<>>

----------------------------------------------------------------------------
(* main, lines 55-102: configuration and session set-up *)

\* Read and parse hosts.json and take its first host.
LoadHosts ==
    /\ pc = "load_hosts"
    /\ \E res \in {"ok", "unreadable", "malformed", "empty"} :
         /\ Log(IoEv("load_hosts", <<>>, res = "ok"))
         /\ IF res = "ok" THEN Go("connect")
            ELSE Fail("load_hosts", "ConfigError", <<>>, <<>>)
    /\ UNCHANGED <<app, prior, printed, localVars, connVars, remoteVars>>

ConnectMutIgnoreFailure ==
    /\ pc = "connect"
    /\ \E ok \in BOOLEAN :
         /\ Log(IoEv("connect", <<>>, ok))
         /\ sessionState' = IF ok THEN "Connected" ELSE "Failed"
         /\ Go("sftp_spawn")
    /\ UNCHANGED <<app, prior, printed, localVars, sftpState, inflight, closeRes, remoteVars>>

\* SessionBuilder ... .connect(url).await.expect("Error")
Connect ==
    /\ pc = "connect"
    /\ \E ok \in BOOLEAN :
         /\ Log(IoEv("connect", <<>>, ok))
         /\ IF ok THEN sessionState' = "Connected" /\ Go("sftp_spawn")
            ELSE sessionState' = "Failed" /\ Fail("connect", "TransportError", <<>>, <<>>)
    /\ UNCHANGED <<app, prior, printed, localVars, sftpState, inflight, closeRes, remoteVars>>

\* session.subsystem("sftp") ... .spawn().await
SpawnSftp ==
    /\ pc = "sftp_spawn"
    /\ \E ok \in BOOLEAN :
         /\ Log(IoEv("sftp_spawn", <<>>, ok))
         /\ IF ok THEN sftpState' = "spawned" /\ Go("sftp_new")
            ELSE sftpState' = sftpState /\ Fail("sftp_spawn", "TransportError", <<>>, <<>>)
    /\ UNCHANGED <<app, prior, printed, localVars, sessionState, inflight, closeRes, remoteVars>>

\* Sftp::new(stdin, stdout, ..).await
SftpNew ==
    /\ pc = "sftp_new"
    /\ \E ok \in BOOLEAN :
         /\ Log(IoEv("sftp_new", <<>>, ok))
         /\ IF ok THEN sftpState' = "ready" /\ Go("load_deploy")
            ELSE sftpState' = sftpState /\ Fail("sftp_new", "TransportError", <<>>, <<>>)
    /\ UNCHANGED <<app, prior, printed, localVars, sessionState, inflight, closeRes, remoteVars>>

HostOutputPathMutFull(a) == Join(a.host_path, a.build_output_file)

\* The remote path of the archive: host_path/<file name of build_output_file>.
HostOutputPath(a) == Join(a.host_path, <<FileName(a.build_output_file)>>)

\* What deploy.json holds: any descriptor, and on a second run the descriptor
\* of the first, the file being unchanged.
DeployFile == IF prior = <<>> THEN App ELSE {prior[1].app}

\* Read and parse deploy.json from the current directory.
LoadDeploy ==
    /\ pc = "load_deploy"
    /\ \/ \E a \in DeployFile :
            /\ app' = a
            /\ Log(IoEv("load_deploy", <<>>, TRUE))
            /\ IF HasFileName(a.build_output_file)
               THEN Say(<<"Deploying app">>) /\ Go("build")
               ELSE printed' = printed /\ Fail("load_deploy", "Panic", <<>>, a.build_output_file)
       \/ /\ Log(IoEv("load_deploy", <<>>, FALSE))
          /\ Fail("load_deploy", "ConfigError", <<>>, <<>>)
          /\ UNCHANGED <<app, printed>>
    /\ UNCHANGED <<prior, localVars, connVars, remoteVars>>

----------------------------------------------------------------------------
(* main, lines 106-179: the local build and the archive *)

\* Command::new(build_command.remove(0)).args(build_command).output() and
\* the match on its result.
RunBuild ==
    /\ pc = "build"
    /\ IF app.build_command = <<>>
       THEN \* Vec::remove(0) of an empty vector panics
            /\ Fail("build", "Panic", <<>>, <<>>)
            /\ UNCHANGED <<trace, printed>>
       ELSE \E out \in BuildOutcomes :
              LET v == BuildVerdict(out)
              IN  /\ Log(Ev("build", <<>>, out))
                  /\ IF v.tag = "Ok"
                     THEN Say(<<"Build ran successfully!">>) /\ Go("create_file")
                     ELSE printed' = printed /\ Fail("build", v.kind, v.text, <<>>)
    /\ UNCHANGED <<app, prior, localVars, connVars, remoteVars>>

\* File::create(build_output_file): the file exists, empty, from here on.
CreateBuildFile ==
    /\ pc = "create_file"
    /\ \E ok \in BOOLEAN :
         /\ Log(IoEv("create_file", app.build_output_file, ok))
         /\ IF ok
            THEN /\ buildFile' = [exists |-> TRUE, entries |-> <<>>, finalized |-> FALSE]
                 /\ Go("package")
            ELSE /\ buildFile' = buildFile
                 /\ Fail("create_file", "PackagingError", <<>>, app.build_output_file)
    /\ UNCHANGED <<app, prior, artIdx, printed, connVars, remoteVars>>

\* What can go wrong with one archive entry: start_file, read, write_all.
Faults == {"none", "start_file", "read", "write"}

\* One entry of the archive: start_file(name), read(path), write_all(content).
\* The result is the entries written and the error that stopped it, if any,
\* with the path its message names: the path read for a read error, the
\* artifact's path (owner) for the other two.
AddEntry(entries, name, path, owner, fault) ==
    IF fault = "start_file"
    THEN [entries |-> entries, err |-> "start_file", path |-> owner]
    ELSE IF fault = "read" \/ ~IsFile(path)
    THEN [entries |-> Append(entries, [name |-> name, data |-> ""]),
          err |-> "read", path |-> path]
    ELSE IF fault = "write"
    THEN [entries |-> Append(entries, [name |-> name, data |-> ""]),
          err |-> "write", path |-> owner]
    ELSE [entries |-> Append(entries, [name |-> name, data |-> LocalFiles[path]]),
          err |-> "", path |-> <<>>]

RECURSIVE AddChildren(_, _, _, _, _, _)
\* The loop over read_dir(): one entry per child, under the child's file
\* name, whatever the child is; the fault, if any, hits child number faultAt.
AddChildren(entries, owner, order, i, faultAt, fault) ==
    IF i > Len(order) THEN [entries |-> entries, err |-> "", path |-> <<>>]
    ELSE LET r == AddEntry(entries, FileName(order[i]), order[i], owner,
                           IF i = faultAt THEN fault ELSE "none")
         IN  IF r.err # "" THEN r
             ELSE AddChildren(r.entries, owner, order, i + 1, faultAt, fault)

\* One turn of the loop over app.artifacts(): a regular file is added under
\* its file name, a directory's children under theirs, and a path that is
\* neither is passed over.
AddArtifact(entries, path, order, faultAt, fault) ==
    IF IsFile(path) THEN AddEntry(entries, FileName(path), path, path, fault)
    ELSE IF IsDir(path) THEN AddChildren(entries, path, order, 1, faultAt, fault)
    ELSE [entries |-> entries, err |-> "", path |-> <<>>]

\* The faults the environment can inject into one turn of the loop: any into
\* a regular file's entry, any into one child's entry of a directory, none
\* where nothing is read or written.
FaultFits(path, faultAt, fault) ==
    IF IsFile(path) THEN faultAt = 0
    ELSE IF IsDir(path) THEN (faultAt = 0) <=> (fault = "none")
    ELSE faultAt = 0 /\ fault = "none"

PackageArtifact ==
    /\ pc = "package"
    /\ artIdx <= Len(app.artifacts)
    /\ LET path == app.artifacts[artIdx]
           kids == IF IsDir(path) THEN Children(path) ELSE {}
       IN  \E order \in Orders(kids), fault \in Faults, faultAt \in 0..Cardinality(kids) :
             /\ FaultFits(path, faultAt, fault)
             /\ LET r == AddArtifact(buildFile.entries, path, order, faultAt, fault)
                IN  /\ buildFile' = [buildFile EXCEPT !.entries = r.entries]
                    /\ Log(IoEv("package", path, r.err = ""))
                    /\ IF r.err = ""
                       THEN artIdx' = artIdx + 1 /\ Go("package")
                       ELSE artIdx' = artIdx /\ Fail("package", r.err, <<>>, r.path)
    /\ UNCHANGED <<app, prior, printed, connVars, remoteVars>>

\* zip_build.finish()
FinishZip ==
    /\ pc = "package"
    /\ artIdx > Len(app.artifacts)
    /\ \E ok \in BOOLEAN :
         /\ Log(IoEv("finish", app.build_output_file, ok))
         /\ IF ok
            THEN buildFile' = [buildFile EXCEPT !.finalized = TRUE] /\ Go("mkdir")
            ELSE buildFile' = buildFile
                 /\ Fail("finish", "PackagingError", <<>>, app.build_output_file)
    /\ UNCHANGED <<app, prior, artIdx, printed, connVars, remoteVars>>

----------------------------------------------------------------------------
(* main, lines 181-203: the remote directory, the upload, the extraction *)

\* The remote steps main takes for successful leave the host as it is now.
Settle == lastOkRemote' = [dirs |-> remoteDirs', files |-> remoteFiles', exec |-> remoteExec']

\* unwrap_command_stderr(session.command("mkdir").args(["-p", host_path]))
\*     .await.expect(..)
Mkdir ==
    /\ pc = "mkdir"
    /\ \E out \in CmdOutcomes : \E eff \in EffectChoices(out) :
         LET r == UnwrapCommandStderr(out)
         IN  /\ Log(Ev("mkdir", app.host_path, out))
             /\ remoteDirs' = IF eff THEN WithDirs(remoteDirs, app.host_path) ELSE remoteDirs
             /\ UNCHANGED <<remoteFiles, remoteExec>>
             /\ IF r.tag = "Ok" THEN Go("upload") /\ Settle
                ELSE Fail("mkdir", r.kind, r.text, <<>>) /\ lastOkRemote' = lastOkRemote
    /\ UNCHANGED <<app, prior, printed, localVars, connVars, stack>>

\* read(build_output_file): the archive as it is on disk, complete once
\* finish() has written its directory.
ArchiveBytes(bf) == IF bf.finalized THEN Zip(bf.entries) ELSE Partial

\* What fs.write may do: write the whole file, fail having written nothing,
\* fail having written a part; it fails where the directory is missing.
WriteChoices(dirs, p) ==
    IF ParentExists(dirs, p) THEN {"ok", "fail", "partial"} ELSE {"fail"}

\* fs.write(host_output_path, read(build_output_file).expect(..)).await.expect(..)
UploadArchive ==
    /\ pc = "upload"
    /\ \/ \* read() of the local archive fails
          /\ Log(IoEv("read_archive", app.build_output_file, FALSE))
          /\ Fail("read_archive", "TransferError", <<>>, app.build_output_file)
          /\ UNCHANGED <<printed, remoteFiles, lastOkRemote>>
       \/ \E res \in WriteChoices(remoteDirs, HostOutputPath(app)) :
            /\ Log(IoEv("upload_archive", HostOutputPath(app), res = "ok"))
            /\ remoteFiles' =
                 IF res = "ok"
                 THEN Put(remoteFiles, HostOutputPath(app), ArchiveBytes(buildFile))
                 ELSE IF res = "partial" THEN Put(remoteFiles, HostOutputPath(app), Partial)
                 ELSE remoteFiles
            /\ IF res = "ok"
               THEN /\ Say(<<"Build output file written! Unzipping...">>)
                    /\ Go("unzip")
                    /\ lastOkRemote' = [Remote EXCEPT !.files = remoteFiles']
               ELSE /\ printed' = printed
                    /\ Fail("upload_archive", "TransferError", <<>>, HostOutputPath(app))
                    /\ lastOkRemote' = lastOkRemote
    /\ UNCHANGED <<app, prior, localVars, connVars, remoteDirs, remoteExec, stack>>

\* Whether `unzip` finds a complete archive at p.
IsArchive(files, p) == p \in DOMAIN files /\ files[p].kind = "zip"

\* unwrap_command_stderr(session.command("unzip").args(["-o", host_output_path])
\*     .args(["-d", host_path])).await.expect(..)
Unzip ==
    /\ pc = "unzip"
    /\ \E out \in CmdOutcomes : \E eff \in EffectChoices(out) :
         LET r == UnwrapCommandStderr(out)
         IN  /\ IsArchive(remoteFiles, HostOutputPath(app)) \/ (out.launched => out.status # 0 /\ ~eff)
             /\ Log(Ev("unzip", HostOutputPath(app), out))
             /\ remoteFiles' =
                  IF eff
                  THEN Extract(remoteFiles, remoteFiles[HostOutputPath(app)].entries,
                               app.host_path)
                  ELSE remoteFiles
             /\ UNCHANGED <<remoteDirs, remoteExec>>
             /\ IF r.tag = "Ok" THEN Go("activate") /\ Settle
                ELSE Fail("unzip", r.kind, r.text, <<>>) /\ lastOkRemote' = lastOkRemote
    /\ UNCHANGED <<app, prior, printed, localVars, connVars, stack>>

----------------------------------------------------------------------------
(* main, lines 205-247: activation *)

\* format!("{}/{}", app.host_path(), entrypoint)
HostEntrypointPath(a) == Join(a.host_path, a.entrypoint[1])

EntrypointListedMutNever(a) == FALSE

\* app.artifacts().into_iter().any(|a| a.eq(entrypoint))
EntrypointListed(a) == \E i \in 1..Len(a.artifacts) : a.artifacts[i] = a.entrypoint[1]

\* if app.entrypoint().is_some() { println!(..); .. } else { .. }
Activate ==
    /\ pc = "activate"
    /\ IF app.entrypoint # <<>>
       THEN /\ Say(<<"Found entrypoint file">>)
            /\ Go(IF EntrypointListed(app) THEN "set_perm" ELSE "entry_upload")
       ELSE /\ printed' = printed
            /\ Go("compose_build")
    /\ UNCHANGED <<app, prior, trace, localVars, connVars, remoteVars>>

\* println!(..); fs.write(host_entrypoint_path, read(entrypoint).expect(..))
\*     .await.expect(..)
UploadEntrypoint ==
    /\ pc = "entry_upload"
    /\ Say(<<"Entrypoint not fount on artifacts, uploading...">>)
    /\ \/ \* read() of the local entrypoint fails
          /\ Log(IoEv("read_entrypoint", app.entrypoint[1], FALSE))
          /\ Fail("read_entrypoint", "TransferError", <<>>, app.entrypoint[1])
          /\ UNCHANGED <<remoteFiles, lastOkRemote>>
       \/ /\ IsFile(app.entrypoint[1])
          /\ \E res \in WriteChoices(remoteDirs, HostEntrypointPath(app)) :
               /\ Log(IoEv("upload_entrypoint", HostEntrypointPath(app), res = "ok"))
               /\ remoteFiles' =
                    IF res = "ok"
                    THEN Put(remoteFiles, HostEntrypointPath(app),
                             Data(LocalFiles[app.entrypoint[1]]))
                    ELSE IF res = "partial"
                    THEN Put(remoteFiles, HostEntrypointPath(app), Partial)
                    ELSE remoteFiles
               /\ IF res = "ok"
                  THEN /\ Go("set_perm")
                       /\ lastOkRemote' = [Remote EXCEPT !.files = remoteFiles']
                  ELSE /\ Fail("upload_entrypoint", "TransferError", <<>>,
                               HostEntrypointPath(app))
                       /\ lastOkRemote' = lastOkRemote
    /\ UNCHANGED <<app, prior, localVars, connVars, remoteDirs, remoteExec, stack>>

\* fs.set_permissions(host_entrypoint_path, owner and group execute)
\*     .await.expect(..): it fails where there is no such remote file.
SetPermissions ==
    /\ pc = "set_perm"
    /\ \E ok \in BOOLEAN :
         /\ ok => HostEntrypointPath(app) \in DOMAIN remoteFiles
         /\ Log(IoEv("set_permissions", HostEntrypointPath(app), ok))
         /\ IF ok
            THEN /\ remoteExec' = remoteExec \cup {HostEntrypointPath(app)}
                 /\ Go("close")
                 /\ lastOkRemote' = [Remote EXCEPT !.exec = remoteExec']
            ELSE /\ remoteExec' = remoteExec
                 /\ Fail("set_permissions", "TransferError", <<>>, HostEntrypointPath(app))
                 /\ lastOkRemote' = lastOkRemote
    /\ UNCHANGED <<app, prior, printed, localVars, connVars, remoteDirs, remoteFiles, stack>>

ComposeVerdictMutGated(out) == UnwrapCommandStderr(out)

\* session.command(..) ... .output().await.expect(..): only a command that
\* could not be run is fatal; its status and streams are dropped.
ComposeVerdict(out) ==
    IF ~out.launched THEN [tag |-> "Panic", kind |-> "TransportError", text |-> <<>>]
    ELSE [tag |-> "Ok", kind |-> "", text |-> <<>>]

\* cd host_path && COMPOSE_STATUS_STDOUT=1 docker-compose build
ComposeBuild ==
    /\ pc = "compose_build"
    /\ \E out \in PlainOutcomes :
         LET r == ComposeVerdict(out)
         IN  /\ Log(Ev("compose_build", app.host_path, out))
             /\ stack' = IF out.launched /\ out.status = 0 THEN "built" ELSE stack
             /\ IF r.tag = "Ok" THEN Go("compose_up")
                ELSE Fail("compose_build", r.kind, r.text, <<>>)
    /\ UNCHANGED <<app, prior, printed, localVars, connVars, remoteDirs, remoteFiles, remoteExec,
                   lastOkRemote>>

\* cd host_path && docker-compose up -d, then println!("Stack built successfully!")
ComposeUp ==
    /\ pc = "compose_up"
    /\ \E out \in PlainOutcomes :
         LET r == ComposeVerdict(out)
         IN  /\ Log(Ev("compose_up", app.host_path, out))
             /\ stack' = IF out.launched /\ out.status = 0 THEN "up" ELSE stack
             /\ IF r.tag = "Ok"
                THEN Say(<<"Stack built successfully!">>) /\ Go("close")
                ELSE printed' = printed /\ Fail("compose_up", r.kind, r.text, <<>>)
    /\ UNCHANGED <<app, prior, localVars, connVars, remoteDirs, remoteFiles, remoteExec,
                   lastOkRemote>>

----------------------------------------------------------------------------
(* main, lines 249-254: teardown *)

\* drop(fs), then the first poll of join!(session.close(), sftp.close()):
\* it polls the two futures one after the other, session.close() first, so
\* both closes are started and neither has completed.
StartCloses ==
    /\ pc = "close"
    /\ sessionState' = "Closing"
    /\ sftpState' = "closing"
    /\ inflight' = inflight \cup {"session_close", "sftp_close"}
    /\ trace' = Record(<<IoEv("session_close_start", <<>>, TRUE),
                          IoEv("sftp_close_start", <<>>, TRUE)>>)
    /\ Go("join")
    /\ UNCHANGED <<app, prior, printed, localVars, closeRes, remoteVars>>

\* session.close() completes, with Ok or Err.
FinishSessionClose ==
    /\ pc = "join"
    /\ "session_close" \in inflight
    /\ \E ok \in BOOLEAN :
         /\ closeRes' = [closeRes EXCEPT !.session = IF ok THEN "ok" ELSE "err"]
         /\ Log(IoEv("session_close_end", <<>>, ok))
    /\ sessionState' = "Closed"
    /\ inflight' = inflight \ {"session_close"}
    /\ Go("join")
    /\ UNCHANGED <<app, prior, printed, localVars, sftpState, remoteVars>>

\* sftp.close() completes, with Ok or Err.
FinishSftpClose ==
    /\ pc = "join"
    /\ "sftp_close" \in inflight
    /\ \E ok \in BOOLEAN :
         /\ closeRes' = [closeRes EXCEPT !.sftp = IF ok THEN "ok" ELSE "err"]
         /\ Log(IoEv("sftp_close_end", <<>>, ok))
    /\ sftpState' = "closed"
    /\ inflight' = inflight \ {"sftp_close"}
    /\ Go("join")
    /\ UNCHANGED <<app, prior, printed, localVars, sessionState, remoteVars>>

ReportMutEarly ==
    /\ pc = "join"
    /\ closeRes.session # "none"
    /\ Say(<<"Connection closed!">>)
    /\ Go("done")
    /\ UNCHANGED <<app, prior, trace, localVars, connVars, remoteVars>>

\* let (_, _) = join!(..) yields once both futures have completed; then
\* println!("Connection closed!") and main returns.
Report ==
    /\ pc = "join"
    /\ closeRes.session # "none"
    /\ closeRes.sftp # "none"
    /\ Say(<<"Connection closed!">>)
    /\ Go("done")
    /\ UNCHANGED <<app, prior, trace, localVars, connVars, remoteVars>>

\* The process's exit status: 0 when main returns, 101 when it panics.
ExitStatus == IF pc = "done" THEN 0 ELSE IF pc = "panicked" THEN 101 ELSE -1

Next ==
    \/ LoadHosts
    \/ Connect
    \/ SpawnSftp
    \/ SftpNew
    \/ LoadDeploy
    \/ RunBuild
    \/ CreateBuildFile
    \/ PackageArtifact
    \/ FinishZip
    \/ Mkdir
    \/ UploadArchive
    \/ Unzip
    \/ Activate
    \/ UploadEntrypoint
    \/ SetPermissions
    \/ ComposeBuild
    \/ ComposeUp
    \/ StartCloses
    \/ FinishSessionClose
    \/ FinishSftpClose
    \/ Report

Spec == Init /\ [][Next]_vars

\* The program is started again once a run has ended with success: a new
\* process, against the same host, with the same deploy.json and the local
\* files as the first run left them (the archive of the first run included).
\* What the first run left on the host is remembered, with whether its unzip
\* exited with status 0.
Rerun ==
    /\ pc = "done"
    /\ prior = <<>>
    /\ prior' = <<[app |-> app, remote |-> Remote,
                   extracted |-> \A i \in 1..Len(trace) :
                                   trace[i].op = "unzip" => trace[i].status = 0]>>
    /\ pc' = "load_hosts"
    /\ app' = NoApp
    /\ artIdx' = 1
    /\ sessionState' = "Unconnected"
    /\ sftpState' = "none"
    /\ inflight' = {}
    /\ closeRes' = [session |-> "none", sftp |-> "none"]
    /\ trace' = <<>>
    /\ printed' = <<>>
    /\ panic' = NoPanic
    /\ lastOkRemote' = Remote
    /\ UNCHANGED <<buildFile, remoteDirs, remoteFiles, remoteExec, stack>>

NextTwice == Next \/ Rerun

SpecTwice == Init /\ [][NextTwice]_vars

----------------------------------------------------------------------------
(* Vocabulary of the properties *)

Steps == 1..Len(trace)

\* The operations that go over the session once it is connected.
RemoteOps ==
    {"mkdir", "upload_archive", "unzip", "upload_entrypoint", "set_permissions",
     "compose_build", "compose_up"}

\* The steps whose result main checks.
GatedOps ==
    {"connect", "build", "create_file", "package", "finish", "mkdir", "read_archive",
     "upload_archive", "unzip", "read_entrypoint", "upload_entrypoint", "set_permissions"}

\* A step failed: its call returned an error, or it is a command whose error
\* stream is what tells failure and that stream is not empty.
StepFailed(e) == ~e.ok \/ (e.op \in {"build", "mkdir", "unzip"} /\ e.stderr # <<>>)

ReportedSuccess ==
    \E i \in 1..Len(printed) : printed[i] = "Connection closed!"

\* The entrypoint is one of the paths of artifacts.
Listed ==
    /\ app.entrypoint # <<>>
    /\ \E k \in 1..Len(app.artifacts) : app.artifacts[k] = app.entrypoint[1]

----------------------------------------------------------------------------
(* C1 *)

\* C1 as stated: the session is connected only after the build has succeeded
\* and the archive has been completely packaged, and a run whose build or
\* packaging fails makes no connection attempt.
C1_ConnectAfterPackaging ==
    /\ \A i \in Steps :
         trace[i].op = "connect" =>
           /\ \E b \in 1..(i - 1) :
                trace[b].op = "build" /\ trace[b].ok /\ trace[b].stderr = <<>>
           /\ \E f \in 1..(i - 1) : trace[f].op = "finish" /\ trace[f].ok
    /\ panic.step \in {"build", "create_file", "package", "finish"} =>
         ~\E i \in Steps : trace[i].op = "connect"

\* C1, amended: the session and the file-transfer channel are set up before
\* the build command is run; every operation that goes over them (a remote
\* command, a file-transfer call) comes after the build has succeeded and the
\* archive has been finished, and a run whose build or packaging fails issues
\* none of them.
C1_RemoteWorkAfterPackaging ==
    /\ \A i \in Steps :
         trace[i].op = "build" =>
           /\ \E c \in 1..(i - 1) : trace[c].op = "connect" /\ trace[c].ok
           /\ \E c \in 1..(i - 1) : trace[c].op = "sftp_new" /\ trace[c].ok
    /\ \A i \in Steps :
         trace[i].op \in RemoteOps =>
           /\ buildFile.finalized
           /\ \E b \in 1..(i - 1) :
                /\ trace[b].op = "build" /\ trace[b].ok /\ trace[b].stderr = <<>>
                /\ \E f \in (b + 1)..(i - 1) : trace[f].op = "finish" /\ trace[f].ok
    /\ panic.step \in {"build", "create_file", "package", "finish"} =>
         ~\E i \in Steps : trace[i].op \in RemoteOps

\* A run whose build failed while the session was already connected.
C1_Witness ==
    /\ pc = "panicked"
    /\ panic.step = "build"
    /\ panic.kind = "BuildError"
    /\ sessionState = "Connected"
    /\ sftpState = "ready"

----------------------------------------------------------------------------
(* C2 *)

\* C2 as stated: once a checked step fails no later step runs, success is
\* never reported, and the remote filesystem is as the last successful step
\* left it.
C2_RemoteAsLastSuccessLeftIt ==
    \A i \in Steps :
      (trace[i].op \in GatedOps /\ StepFailed(trace[i])) =>
        /\ i = Len(trace)
        /\ pc = "panicked"
        /\ ~ReportedSuccess
        /\ Remote = lastOkRemote

\* C2, amended: once a checked step fails no later step runs, success is
\* never reported, and the remote filesystem stays as the failing step left
\* it, whatever that step had already written: nothing is cleaned up.
C2_FailFastNoCleanup ==
    /\ [](\A i \in Steps :
            (trace[i].op \in GatedOps /\ StepFailed(trace[i])) =>
              /\ i = Len(trace)
              /\ pc = "panicked"
              /\ ~ReportedSuccess)
    /\ [][(\E i \in Steps : trace[i].op \in GatedOps /\ StepFailed(trace[i])) =>
            UNCHANGED <<remoteDirs, remoteFiles, remoteExec, stack, trace>>]_vars

\* An extraction that wrote its files, complained on its error stream and so
\* ended the run.
C2_Witness ==
    /\ pc = "panicked"
    /\ panic.step = "unzip"
    /\ trace[Len(trace)].stderr # <<>>
    /\ remoteFiles # lastOkRemote.files

----------------------------------------------------------------------------
(* C3 *)

\* C3 as stated: whichever remote command it is (mkdir, unzip, docker-compose
\* build, docker-compose up), a non-empty error stream aborts the run with a
\* remote-command error carrying the decoded text, whatever the exit status.
C3_EveryCommandGated ==
    \A i \in Steps :
      ( /\ trace[i].op \in {"mkdir", "unzip", "compose_build", "compose_up"}
        /\ trace[i].ok
        /\ trace[i].stderr # <<>>
        /\ FromUtf8(trace[i].stderr).ok ) =>
        /\ pc = "panicked"
        /\ panic.step = trace[i].op
        /\ panic.kind = "RemoteCommandError"
        /\ panic.text = FromUtf8(trace[i].stderr).text

\* C3, amended: for mkdir and unzip a non-empty error stream aborts the run,
\* whatever the exit status, with a remote-command error carrying the decoded
\* text when the stream is UTF-8 (and a decoding panic when it is not); for
\* docker-compose build and docker-compose up the error stream is not looked
\* at and never aborts the run.
C3_MkdirUnzipGated ==
    \A i \in Steps :
      (trace[i].ok /\ trace[i].stderr # <<>>) =>
        /\ trace[i].op \in {"mkdir", "unzip"} =>
             /\ i = Len(trace)
             /\ pc = "panicked"
             /\ panic.step = trace[i].op
             /\ IF FromUtf8(trace[i].stderr).ok
                THEN /\ panic.kind = "RemoteCommandError"
                     /\ panic.text = FromUtf8(trace[i].stderr).text
                ELSE panic.kind = "Utf8Error"
        /\ trace[i].op \in {"compose_build", "compose_up"} => panic.step # trace[i].op

\* An unzip that exited with status 0, wrote a two-byte character to its error
\* stream and aborted the run with that character as the error text.
C3_Witness ==
    /\ pc = "panicked"
    /\ panic.step = "unzip"
    /\ panic.kind = "RemoteCommandError"
    /\ panic.text = <<233>>
    /\ trace[Len(trace)].status = 0

----------------------------------------------------------------------------
(* C4 *)

\* C4: in entrypoint mode, an entrypoint that is one of the artifacts paths is
\* never uploaded on its own and only has its permissions changed; one that
\* is not is uploaded first and has its permissions changed after that.
C4_EntrypointUploadRule ==
    /\ \A i \in Steps :
         trace[i].op \in {"read_entrypoint", "upload_entrypoint"} =>
           app.entrypoint # <<>> /\ ~Listed
    /\ \A i \in Steps :
         trace[i].op = "set_permissions" =>
           /\ app.entrypoint # <<>>
           /\ ~Listed => \E j \in 1..(i - 1) :
                           trace[j].op = "upload_entrypoint" /\ trace[j].ok
    /\ (app.entrypoint # <<>> /\ pc \in {"close", "join", "done"}) =>
         \E i \in Steps : trace[i].op = "set_permissions" /\ trace[i].ok

\* A finished run that uploaded an entrypoint absent from artifacts and then
\* changed its permissions.
C4_Witness ==
    /\ pc = "done"
    /\ app.entrypoint # <<>>
    /\ ~Listed
    /\ \E i, j \in Steps :
         /\ i < j
         /\ trace[i].op = "upload_entrypoint" /\ trace[i].ok
         /\ trace[j].op = "set_permissions" /\ trace[j].ok

----------------------------------------------------------------------------
(* C5 *)

\* C5 as stated: with the entrypoint among the artifacts, the permission
\* change goes to host_path/<file name of the entrypoint>, where the
\* extraction of the flattened archive put the file.
C5_PermissionOnExtractedFile ==
    \A i \in Steps :
      (trace[i].op = "set_permissions" /\ Listed) =>
        trace[i].arg = Join(app.host_path, <<FileName(app.entrypoint[1])>>)

----------------------------------------------------------------------------
(* C6 *)

\* C6 as stated: once the loop has met an artifact path that does not exist,
\* packaging has failed with an error naming that path, there is no archive
\* file at the build output path, and no remote step has run.
C6_MissingArtifactFails ==
    \A k \in 1..Len(app.artifacts) :
      (k < artIdx /\ ~IsFile(app.artifacts[k]) /\ ~IsDir(app.artifacts[k])) =>
        /\ pc = "panicked"
        /\ panic.step = "package"
        /\ panic.path = app.artifacts[k]
        /\ ~buildFile.exists
        /\ ~\E i \in Steps : trace[i].op \in RemoteOps

----------------------------------------------------------------------------
(* C7 *)

\* C7 as stated: the session's close starts only once the file-transfer
\* channel's close has started and completed.
C7_SftpClosedBeforeSessionClose ==
    \A i \in Steps :
      trace[i].op = "session_close_start" =>
        \E j \in 1..(i - 1) : trace[j].op = "sftp_close_end"

----------------------------------------------------------------------------
(* C8 *)

\* C8 as stated: when one of the two closes fails the other is still
\* attempted, and the run does not end as a run whose closes both succeeded
\* does, with the success line printed and exit status 0.
C8_CloseFailureObservable ==
    (closeRes.session = "err" \/ closeRes.sftp = "err") =>
      /\ pc = "done" => (closeRes.session # "none" /\ closeRes.sftp # "none")
      /\ ~(pc = "done" /\ ReportedSuccess /\ ExitStatus = 0)

----------------------------------------------------------------------------
(* C9 *)

\* C9 as stated: never are two network or process operations in flight at
\* once.
C9_OneOperationInFlight == Cardinality(inflight) <= 1

----------------------------------------------------------------------------
(* C10 *)

\* C10 as stated: a docker-compose build that writes to its error stream does
\* not abort the run and the up command follows it, whereas a docker-compose
\* up that writes to its error stream is fatal and the run does not go on to
\* report success.
C10_UpFailureFatal ==
    \A i \in Steps :
      (trace[i].ok /\ trace[i].stderr # <<>>) =>
        /\ trace[i].op = "compose_build" =>
             /\ panic.step # "compose_build"
             /\ IF i = Len(trace) THEN pc = "compose_up"
                ELSE trace[i + 1].op = "compose_up"
        /\ trace[i].op = "compose_up" =>
             /\ pc = "panicked"
             /\ ~ReportedSuccess

\* C10, amended: the two commands are handled alike. Neither one's error
\* output (nor its exit status) aborts the run: after such a build the up
\* command is issued, after such an up the run goes on to close and report
\* success. What is fatal, for either, is only that the command could not be
\* run at all.
C10_ComposeNotGated ==
    \A i \in Steps :
      /\ trace[i].op = "compose_build" =>
           IF trace[i].ok
           THEN /\ panic.step # "compose_build"
                /\ IF i = Len(trace) THEN pc = "compose_up"
                   ELSE trace[i + 1].op = "compose_up"
           ELSE i = Len(trace) /\ pc = "panicked" /\ panic.step = "compose_build"
      /\ trace[i].op = "compose_up" =>
           IF trace[i].ok
           THEN /\ pc \in {"close", "join", "done"}
                /\ IF i = Len(trace) THEN pc = "close"
                   ELSE trace[i + 1].op = "session_close_start"
           ELSE i = Len(trace) /\ pc = "panicked" /\ panic.step = "compose_up"

\* A run that reported success although both docker-compose commands exited
\* with status 1 and wrote to their error streams.
C10_Witness ==
    /\ pc = "done"
    /\ ReportedSuccess
    /\ \E i, j \in Steps :
         /\ trace[i].op = "compose_build" /\ trace[i].stderr # <<>> /\ trace[i].status = 1
         /\ trace[j].op = "compose_up" /\ trace[j].stderr # <<>> /\ trace[j].status = 1

----------------------------------------------------------------------------
(* C11 *)

\* C11 as stated: a run whose session reached Connected has closed the session
\* and the file-transfer channel by the time the process ends, also when it
\* ends because a later step failed.
C11_ClosedBeforeExit ==
    ( /\ pc \in {"done", "panicked"}
      /\ \E i \in Steps : trace[i].op = "connect" /\ trace[i].ok ) =>
      /\ sessionState = "Closed"
      /\ sftpState # "none" => sftpState = "closed"

----------------------------------------------------------------------------
(* C12 *)

\* The moves of the session main can observe; Connecting is passed through
\* inside the awaited connect.
SessionMoves ==
    {<<"Unconnected", "Connected">>, <<"Unconnected", "Failed">>,
     <<"Connected", "Closing">>, <<"Closing", "Closed">>}

\* C12: the session only moves forward along Unconnected, (Connecting,)
\* Connected, Closing, Closed, or from connecting to failure; every
\* file-transfer call and every remote command is issued while it is
\* Connected, a failed connect leads to no remote operation, and there is one
\* connect at most.
C12_SessionLifecycle ==
    /\ [](/\ Cardinality({i \in Steps : trace[i].op = "connect"}) <= 1
          /\ (\E i \in Steps : trace[i].op = "connect" /\ ~trace[i].ok) =>
               /\ sessionState = "Failed"
               /\ ~\E j \in Steps : trace[j].op \in RemoteOps)
    /\ [][/\ sessionState' # sessionState => <<sessionState, sessionState'>> \in SessionMoves
          /\ (Len(trace') > Len(trace) /\ trace'[Len(trace')].op \in RemoteOps) =>
               (sessionState = "Connected" /\ sessionState' = "Connected")]_vars

\* A finished run: the session went all the way to Closed after remote
\* commands and file transfers.
C12_Witness ==
    /\ pc = "done"
    /\ sessionState = "Closed"
    /\ \E i, j \in Steps : trace[i].op = "unzip" /\ trace[j].op = "set_permissions"

----------------------------------------------------------------------------
(* C13 *)

\* A step did not succeed, whichever step it is: its call returned an error
\* or, for a command, it wrote to its error stream.
StepUnsuccessful(e) == ~e.ok \/ e.stderr # <<>>

\* C13 as stated: success is reported only after both closes have completed
\* and only after every earlier step of the run completed successfully.
C13_SuccessAfterAllSucceeded ==
    ReportedSuccess =>
      /\ closeRes.session # "none" /\ closeRes.sftp # "none"
      /\ \A i \in Steps :
           trace[i].op \notin {"session_close_end", "sftp_close_end"} =>
             ~StepUnsuccessful(trace[i])

\* C13, amended: success is reported only after both closes have completed
\* (with a result that is not looked at), and only after every earlier step
\* whose result main checks came back without error: every call returned Ok
\* and the build, mkdir and unzip commands wrote nothing to their error
\* streams. The docker-compose commands' outcomes and all exit statuses are
\* not checked.
C13_SuccessAfterCheckedSteps ==
    /\ ReportedSuccess =>
         /\ pc = "done"
         /\ closeRes.session # "none" /\ closeRes.sftp # "none"
         /\ inflight = {}
         /\ \E i, j \in Steps : trace[i].op = "session_close_end" /\ trace[j].op = "sftp_close_end"
         /\ \A i \in Steps :
              trace[i].op \notin {"session_close_end", "sftp_close_end"} =>
                /\ trace[i].ok
                /\ trace[i].op \in GatedOps => ~StepFailed(trace[i])
    /\ pc = "done" => ReportedSuccess

\* A run that reported success after both closes came back Ok.
C13_Witness ==
    /\ pc = "done"
    /\ ReportedSuccess
    /\ closeRes = [session |-> "ok", sftp |-> "ok"]

----------------------------------------------------------------------------
(* C14 *)

Under(p, h) == Len(p) > Len(h) /\ SubSeq(p, 1, Len(h)) = h

\* What a host holds below the directory h.
BaseDir(r, h) ==
    [dirs |-> {d \in r.dirs : Under(d, h)},
     files |-> [p \in {q \in DOMAIN r.files : Under(q, h)} |-> r.files[p]],
     exec |-> {x \in r.exec : Under(x, h)}]

\* The second run against the host has ended with success.
SecondRunDone == prior # <<>> /\ pc = "done" /\ ReportedSuccess

\* Two archives with the same entries, in whatever order.
SameEntries(a, b) ==
    /\ a.kind = "zip" /\ b.kind = "zip"
    /\ Len(a.entries) = Len(b.entries)
    /\ \A e \in {a.entries[i] : i \in 1..Len(a.entries)} \cup
                {b.entries[i] : i \in 1..Len(b.entries)} :
         Cardinality({i \in 1..Len(a.entries) : a.entries[i] = e}) =
         Cardinality({i \in 1..Len(b.entries) : b.entries[i] = e})

\* C14 as stated: when the program is run twice in succession against the
\* same host with the same descriptor and the same local files and both runs
\* succeed, the remote base directory holds after the second run exactly what
\* it held after the first.
C14_SecondRunChangesNothing ==
    SecondRunDone =>
      BaseDir(Remote, prior[1].app.host_path) =
      BaseDir(prior[1].remote, prior[1].app.host_path)

\* C14, amended: when both runs succeed and the first run's unzip exited with
\* status 0, the remote base directory holds after the second run the same
\* directories, the same files with the same bytes and the same execute
\* permissions as after the first, except for the uploaded archive, which
\* holds the same entries but may list them in another order.
C14_SecondRunKeepsFiles ==
    (SecondRunDone /\ prior[1].extracted) =>
      LET h == prior[1].app.host_path
          one == BaseDir(prior[1].remote, h)
          two == BaseDir(Remote, h)
      IN  /\ two.dirs = one.dirs
          /\ two.exec = one.exec
          /\ DOMAIN two.files = DOMAIN one.files
          /\ \A p \in DOMAIN two.files :
               IF p = HostOutputPath(prior[1].app)
               THEN SameEntries(two.files[p], one.files[p])
               ELSE two.files[p] = one.files[p]

\* Two successful runs that packaged a directory whose children were read in
\* different orders: the same files on the host, another archive.
C14_Witness ==
    /\ SecondRunDone
    /\ prior[1].extracted
    /\ remoteFiles # prior[1].remote.files
    /\ <<"opt", "svc", "app.yml">> \in DOMAIN remoteFiles

----------------------------------------------------------------------------
(* C15 *)

\* C15 as stated: a directory artifact gives one entry per direct child that
\* is a regular file and nothing else; a child that is a directory gives no
\* entry and does not stop the packaging.
C15_SubdirectoriesSkipped ==
    /\ \A k \in 1..Len(app.artifacts) : \A c \in Children(app.artifacts[k]) :
         (IsDir(app.artifacts[k]) /\ IsDir(c)) =>
           ~(panic.step = "package" /\ panic.path = c)
    /\ \A k \in 1..Len(app.artifacts) :
         (IsDir(app.artifacts[k]) /\ Len(app.artifacts) = 1 /\ k < artIdx) =>
           /\ Len(buildFile.entries) =
                Cardinality({c \in Children(app.artifacts[k]) : IsFile(c)})
           /\ \A e \in 1..Len(buildFile.entries) :
                \E c \in Children(app.artifacts[k]) :
                  IsFile(c) /\ buildFile.entries[e].name = FileName(c)

----------------------------------------------------------------------------
(* C16 *)

\* C16: for the commands run through unwrap_command_stderr (mkdir, unzip), a
\* command that could not be launched or awaited ends the run with the
\* transport panic and never with the command-failure error, and a command
\* that ran and wrote to its error stream never ends it with the transport
\* panic.
C16_TransportFailureDistinct ==
    \A i \in Steps :
      trace[i].op \in {"mkdir", "unzip"} =>
        /\ ~trace[i].ok =>
             /\ pc = "panicked"
             /\ panic.step = trace[i].op
             /\ panic.kind = "TransportError"
        /\ (trace[i].ok /\ trace[i].stderr # <<>>) =>
             /\ pc = "panicked"
             /\ panic.step = trace[i].op
             /\ panic.kind \in {"RemoteCommandError", "Utf8Error"}

\* A mkdir that could not be launched and ended the run with the transport
\* panic.
C16_Witness ==
    /\ pc = "panicked"
    /\ panic.step = "mkdir"
    /\ panic.kind = "TransportError"
    /\ ~trace[Len(trace)].ok

----------------------------------------------------------------------------
(* C17 *)

\* The local files an artifact contributes.
Sources(path) == IF IsFile(path) THEN {path} ELSE Children(path)

\* The artifacts are regular files and directories of regular files, and no
\* two of the files they contribute share a file name.
RoundTripInput ==
    /\ \A k \in 1..Len(app.artifacts) :
         \/ IsFile(app.artifacts[k])
         \/ IsDir(app.artifacts[k]) /\ \A c \in Children(app.artifacts[k]) : IsFile(c)
    /\ \A k, l \in 1..Len(app.artifacts) :
         k # l => \A p \in Sources(app.artifacts[k]), q \in Sources(app.artifacts[l]) :
                    FileName(p) # FileName(q)

\* C17: with such artifacts, once the archive has been packaged, uploaded and
\* extracted, the remote base directory holds under each file's name the
\* bytes of the local file.
C17_RoundTrip ==
    ( /\ \E i \in Steps : trace[i].op = "unzip" /\ trace[i].ok /\ trace[i].status = 0
      /\ RoundTripInput ) =>
      \A k \in 1..Len(app.artifacts) : \A p \in Sources(app.artifacts[k]) :
        /\ Join(app.host_path, <<FileName(p)>>) \in DOMAIN remoteFiles
        /\ remoteFiles[Join(app.host_path, <<FileName(p)>>)] = Data(LocalFiles[p])

\* A file and a directory of two files round-tripped.
C17_Witness ==
    /\ app.artifacts = <<<<"bin", "server">>, <<"conf">>>>
    /\ \E i \in Steps : trace[i].op = "unzip" /\ trace[i].ok /\ trace[i].status = 0
    /\ remoteFiles[<<"opt", "svc", "server">>] = Data("srv")
    /\ remoteFiles[<<"opt", "svc", "db.yml">>] = Data("db")
    /\ pc = "activate"

----------------------------------------------------------------------------
(* C18 *)

\* The step before step i succeeded as main checks it.
After(i, op) ==
    /\ i > 1
    /\ trace[i - 1].op = op
    /\ trace[i - 1].ok
    /\ op \in {"mkdir", "unzip"} => trace[i - 1].stderr = <<>>

\* C18: the remote steps come in the order mkdir, upload of the archive to
\* host_path/<file name of build_output_file>, unzip of that same path,
\* activation, close, each right after the one before it succeeded; what is
\* uploaded is the finished archive.
C18_RemoteStepOrder ==
    \A i \in Steps :
      /\ trace[i].op = "mkdir" => After(i, "finish") /\ trace[i].arg = app.host_path
      /\ trace[i].op = "upload_archive" =>
           /\ After(i, "mkdir")
           /\ trace[i].arg = Join(app.host_path, <<FileName(app.build_output_file)>>)
           /\ trace[i].ok =>
                /\ buildFile.finalized
                /\ remoteFiles[trace[i].arg] = Zip(buildFile.entries)
      /\ trace[i].op = "unzip" =>
           /\ After(i, "upload_archive")
           /\ trace[i].arg = trace[i - 1].arg
      /\ trace[i].op \in {"upload_entrypoint", "compose_build"} => After(i, "unzip")
      /\ trace[i].op = "set_permissions" =>
           After(i, "unzip") \/ After(i, "upload_entrypoint")
      /\ trace[i].op = "compose_up" => After(i, "compose_build")
      /\ trace[i].op = "session_close_start" =>
           After(i, "set_permissions") \/ After(i, "compose_up")

\* A finished run in entrypoint mode.
C18_Witness ==
    /\ pc = "done"
    /\ \E i \in Steps :
         /\ trace[i].op = "upload_archive"
         /\ trace[i].arg = <<"opt", "svc", "out.zip">>
         /\ trace[i + 1].op = "unzip"
         /\ trace[i + 2].op = "set_permissions"
         /\ trace[i + 3].op = "session_close_start"

----------------------------------------------------------------------------
(* C19 *)

\* The step after step i has been taken or is about to be.
Proceeded(i) ==
    /\ panic.step # trace[i].op
    /\ IF i = Len(trace) THEN pc \notin {"panicked", "done"} ELSE TRUE

\* C19 as stated: for the build, mkdir and unzip commands an empty error
\* stream alone means success, so one that exits with a non-zero status and
\* an empty error stream lets the run proceed.
C19_StderrAloneDecides ==
    \A i \in Steps :
      (trace[i].op \in {"build", "mkdir", "unzip"} /\ trace[i].ok) =>
        (trace[i].stderr = <<>> <=> Proceeded(i))

====
